---- MODULE Spec2Model ----
(***************************************************************************)
(* The session manager of ethers-web (src/src/lib.rs, struct Ethereum):    *)
(* one manager object used by a single owner that calls connect,           *)
(* disconnect, switch_network, restore and next one after the other, the   *)
(* injected host (window.ethereum) that fires the listeners the manager    *)
(* registered, and the WalletConnect relay client polled by next().        *)
(*                                                                         *)
(* Option<T> is modelled as a sequence: None is <<>>, Some(x) is <<x>>.    *)
(* A U256 is the pair <<hi, lo>> of its bits above and below 2^64.         *)
(***************************************************************************)
EXTENDS Integers, Sequences, FiniteSets, TLC

\* ---------------------------------------------------------------- bounds
MaxCalls == 3        \* connect / disconnect / switch_network / restore calls
MaxNotifs == 2       \* host notifications
MaxRelay == 1        \* results of polling the relay client
MaxListeners == 2    \* listener sets registered with the host
MaxSteps == 4        \* calls, notifications and relay results together

\* ------------------------------------------------------ program constants
Capacity == 10       \* channel::<Event>(10)
DefaultChain == 1    \* EthereumBuilder::new, chain_id: 1

None == <<>>
Some(x) == <<x>>

Min(a, b) == IF a < b THEN a ELSE b

\* ------------------------------------------------------------ input sets
Chains == {1, 2}
AccountLists == {<<>>, <<"a1">>}
HostAccounts == {None} \cup {Some(l) : l \in AccountLists}
U256Values == {<<0, 1>>, <<1, 2>>}
HostChains == {None} \cup {Some(v) : v \in U256Values}

\* U256::low_u64: the lowest of the four 64-bit limbs
LowU64(v) == v[2]

\* --------------------------------------------------------------- events
Connected == <<"Connected", None>>
Disconnected == <<"Disconnected", None>>
Broken == <<"Broken", None>>
ConnectionWaiting(url) == <<"ConnectionWaiting", Some(url)>>
ChainIdChanged(c) == <<"ChainIdChanged", c>>
AccountsChanged(a) == <<"AccountsChanged", a>>

\* a predicate that takes an empty account list for a lost connection
is_connection_established_EmptyIsDown(e) ==
    ~(\/ e[1] = "ConnectionWaiting"
      \/ e[1] = "Disconnected"
      \/ (e[1] = "ChainIdChanged" /\ e[2] = None)
      \/ (e[1] = "AccountsChanged" /\ e[2] \in {None, Some(<<>>)}))

is_connection_established(e) ==
    ~(\/ e[1] = "ConnectionWaiting"
      \/ e[1] = "Disconnected"
      \/ (e[1] = "ChainIdChanged" /\ e[2] = None)
      \/ (e[1] = "AccountsChanged" /\ e[2] = None))

\* ------------------------------------------------------------ variables
VARIABLES
    host,           \* window.ethereum exists (Eip1193::is_available)
    wc_project_id,  \* a relay project id was configured
    wallet,         \* "None" | "Injected" | "WalletConnect"
    accounts,       \* Option<Vec<Address>>
    chain_id,       \* Option<u64>
    chan,           \* the bounded mpsc channel, oldest event first
    waitq,          \* listener tasks waiting for room in the channel, FIFO
    listeners,      \* listener sets registered with the host
    storage,        \* LocalStorage[STATUS_KEY]: Option<EthereumState>
    wc_chain,       \* the relay client's active chain
    wc_accts,       \* the relay client's accounts per chain
    pc,             \* where the owner's current call is suspended
    pending,        \* events a suspended call has still to send
    origin,         \* "connect" or "restore": who runs the handshake
    mark,           \* Len(chan) when the injected handshake started
    op, arg,        \* the step just taken and its argument
    result,         \* what the call returned
    event,          \* the event next() returned: Option<Event>
    sent,           \* the events the step just taken pushed
    note,           \* the host notification just delivered
    nCalls, nNotifs, nRelay,
    ui,             \* the state a UI binding shows (yew.rs, leptos.rs)
    loops           \* the binding's listener loops, first the one in recv

mgr == <<wallet, accounts, chain_id>>
cfg == <<host, wc_project_id>>
bnd == <<ui, loops>>
wcc == <<wc_chain, wc_accts>>
vars == <<host, wc_project_id, wallet, accounts, chain_id, chan, waitq,
          listeners, storage, wc_chain, wc_accts, pc, pending, origin, mark,
          op, arg, result, event, sent, note, nCalls, nNotifs, nRelay,
          ui, loops>>

Budget == nCalls + nNotifs + nRelay < MaxSteps

NoGrants == [c \in Chains |-> None]
GrantChoices ==
    { [c \in Chains |-> IF c = 1 THEN Some(<<"a1">>) ELSE Some(<<"a2">>)],
      [c \in Chains |-> IF c = 1 THEN Some(<<"a1">>) ELSE Some(<<>>)] }

\* what LocalStorage holds under STATUS_KEY when the page loads: nothing,
\* or the record an earlier page left for an injected or a relay session
StoredStates ==
    {None,
     Some([chain_id |-> Some(DefaultChain), wc_state |-> None]),
     Some([chain_id |-> Some(DefaultChain), wc_state |-> Some("wc_state")])}

\* the binding's state: what it shows, and how many loops it has started
UiState(kit) ==
    [kit |-> kit, connected |-> FALSE, accounts |-> None, chain_id |-> None,
     pairing_url |-> None, started |-> 0]

\* the manager used without a UI binding
NoUi == UiState("none")

\* the manager as EthereumBuilder::build leaves it
Constructed ==
    /\ host \in BOOLEAN
    /\ wc_project_id \in BOOLEAN
    /\ wallet = "None"
    /\ accounts = None
    /\ chain_id = Some(DefaultChain)
    /\ chan = <<>>
    /\ waitq = <<>>
    /\ listeners = 0
    /\ storage \in StoredStates
    /\ wc_chain = DefaultChain
    /\ wc_accts = NoGrants
    /\ pc = "idle"
    /\ pending = <<>>
    /\ origin = "connect"
    /\ mark = 0
    /\ op = "new"
    /\ arg = "-"
    /\ result = "-"
    /\ event = None
    /\ sent = <<>>
    /\ note = None
    /\ nCalls = 0
    /\ nNotifs = 0
    /\ nRelay = 0

Init ==
    /\ Constructed
    /\ ui = NoUi
    /\ loops = <<>>

\* ------------------------------------------------------- channel sends
\* sender.send(e).await completes at once while the channel has room and
\* suspends the sender otherwise; the events of evs that fit.
Pushed(c, evs) == SubSeq(evs, 1, Min(Len(evs), Capacity - Len(c)))

\* The sends of the owner's call, then its return value. With the channel
\* full the call stays suspended in send: the owner is the only consumer.
Emit(evs, res) ==
    LET p == Pushed(chan, evs) IN
    /\ chan' = chan \o p
    /\ sent' = p
    /\ waitq' = waitq
    /\ IF Len(p) = Len(evs)
       THEN pc' = "idle" /\ pending' = <<>> /\ result' = res
       ELSE /\ pc' = "blocked"
            /\ pending' = SubSeq(evs, Len(p) + 1, Len(evs))
            /\ result' = "Pending"

\* a restore() that reports the failure of the connect it attempted
Returned_Propagates(orig, res) == res

\* restore() discards the result of the connect it attempts and returns true
Returned(orig, res) == IF orig = "restore" THEN "true" ELSE res

\* ----------------------------------------------------- listener tasks
\* What the task spawned by one registered listener sends, in order.
\* disconnect: Disconnected. chainChanged: the payload decoded as U256 and cut
\* to its low 64 bits, None when it does not decode. accountsChanged: the
\* decoded list, then Disconnected for an empty or undecodable list and
\* Connected otherwise.
ListenerEvents_DisconnectedFirst(kind, payload) ==
    CASE kind = "disconnect" -> <<Disconnected>>
      [] kind = "chainChanged" ->
            <<ChainIdChanged(IF payload = None THEN None
                             ELSE Some(LowU64(payload[1])))>>
      [] kind = "accountsChanged" ->
            <<IF payload = None THEN Disconnected
              ELSE IF payload[1] = <<>> THEN Disconnected ELSE Connected,
              AccountsChanged(payload)>>

ListenerEvents_OneToOne(kind, payload) ==
    CASE kind = "disconnect" -> <<Disconnected>>
      [] kind = "chainChanged" ->
            <<ChainIdChanged(IF payload = None THEN None
                             ELSE Some(LowU64(payload[1])))>>
      [] kind = "accountsChanged" ->
            IF payload = None THEN <<AccountsChanged(payload), Disconnected>>
            ELSE IF payload[1] = <<>>
                 THEN <<AccountsChanged(payload), Disconnected>>
                 ELSE <<AccountsChanged(payload)>>

ListenerEvents(kind, payload) ==
    CASE kind = "disconnect" -> <<Disconnected>>
      [] kind = "chainChanged" ->
            <<ChainIdChanged(IF payload = None THEN None
                             ELSE Some(LowU64(payload[1])))>>
      [] kind = "accountsChanged" ->
            <<AccountsChanged(payload),
              IF payload = None THEN Disconnected
              ELSE IF payload[1] = <<>> THEN Disconnected ELSE Connected>>

\* The senders waiting on the channel are served first come, first served:
\* a freed slot goes to the first of them, which sends one event and, with
\* more to send, waits again at the back of the queue.
\* <<channel, waiting tasks>> once no task can go on.
RECURSIVE RunTasks(_, _)
RunTasks(c, q) ==
    IF q = <<>> \/ Len(c) >= Capacity THEN <<c, q>>
    ELSE LET t == Head(q)
             p == Pushed(c, t.evs)
             rest == SubSeq(t.evs, Len(p) + 1, Len(t.evs))
         IN RunTasks(c \o p,
                     IF rest = <<>> THEN Tail(q)
                     ELSE Tail(q) \o <<[src |-> t.src, evs |-> rest]>>)

\* The tasks spawned by one notification are polled in the order they were
\* spawned, before anything else runs. Each sends while the channel has
\* room and no sender waits, and joins the back of the queue of senders
\* with what it has left. <<channel, waiting tasks>> after all were polled.
RECURSIVE RunSpawned(_, _, _)
RunSpawned(c, q, new) ==
    IF new = <<>> THEN <<c, q>>
    ELSE LET t == Head(new)
             p == IF q # <<>> THEN <<>> ELSE Pushed(c, t.evs)
             rest == SubSeq(t.evs, Len(p) + 1, Len(t.evs))
         IN RunSpawned(c \o p,
                       IF rest = <<>> THEN q
                       ELSE q \o <<[src |-> t.src, evs |-> rest]>>,
                       Tail(new))

\* The host fires one notification: every listener registered for it (one
\* per connect_injected so far: none is ever removed) spawns its task.
HostNotify(kind, payload) ==
    /\ host
    /\ listeners > 0
    /\ nNotifs < MaxNotifs /\ Budget
    /\ nNotifs' = nNotifs + 1
    /\ LET new == [i \in 1..listeners |->
                     [src |-> <<kind, payload>>,
                      evs |-> ListenerEvents(kind, payload)]]
           r == RunSpawned(chan, waitq, new)
       IN /\ chan' = r[1]
          /\ waitq' = r[2]
          /\ sent' = SubSeq(r[1], Len(chan) + 1, Len(r[1]))
    /\ op' = "notify"
    /\ arg' = kind
    /\ note' = Some(<<kind, payload>>)
    /\ result' = "-"
    /\ event' = None
    /\ UNCHANGED <<cfg, bnd, mgr, listeners, storage, wcc, pc, pending, origin,
                   mark, nCalls, nRelay>>

Notify ==
    \/ \E a \in HostAccounts : HostNotify("accountsChanged", a)
    \/ \E c \in HostChains : HostNotify("chainChanged", c)
    \/ HostNotify("disconnect", None)

\* ------------------------------------------------------------- connect
\* a guard that looks for a relay session only
AlreadyConnected_RelayOnly(w) == w = "WalletConnect"

\* if self.wallet != WebProvider::None { return Err(AlreadyConnected) }
AlreadyConnected(w) == w # "None"

\* a probe that always finds a host wallet
injected_available_Always(h) == TRUE

\* injected_available(): Eip1193::is_available(), the probe of window.ethereum
injected_available(h) == h

\* a relay that needs no project id
walletconnect_available_Always(p) == TRUE

\* walletconnect_available(): self.wc_project_id.is_some()
walletconnect_available(p) == p

\* a listing with the relay first
available_wallets_RelayFirst(h, p) ==
    (IF p THEN <<"WalletConnect">> ELSE <<>>) \o (IF h THEN <<"Injected">> ELSE <<>>)

\* available_wallets(): the types pushed in the order of its two tests
available_wallets(h, p) ==
    (IF h THEN <<"Injected">> ELSE <<>>) \o (IF p THEN <<"WalletConnect">> ELSE <<>>)

\* the owner asks for the available wallets: nothing of the manager changes
AvailableWallets ==
    /\ pc = "idle"
    /\ op' = "available_wallets"
    /\ arg' = "-"
    /\ note' = Some(<<"wallets", available_wallets(host, wc_project_id)>>)
    /\ result' = "-"
    /\ event' = None
    /\ sent' = <<>>
    /\ UNCHANGED <<cfg, bnd, mgr, chan, waitq, listeners, storage, wcc, pc,
                   pending, origin, mark, nCalls, nNotifs, nRelay>>

\* connect_injected up to its first await: the availability check, the
\* three listeners, self.wallet = Injected, then eth_requestAccounts is sent.
connect_injected(orig) ==
    IF ~injected_available(host)
    THEN /\ result' = Returned(orig, "Unavailable")
         /\ sent' = <<>>
         /\ note' = None
         /\ UNCHANGED <<mgr, chan, waitq, listeners, wcc, pc, pending,
                        origin, mark>>
    ELSE /\ listeners' = listeners + 1
         /\ wallet' = "Injected"
         /\ pc' = "ci_accounts"
         /\ origin' = orig
         /\ mark' = Len(chan)
         /\ result' = "Pending"
         /\ sent' = <<>>
         /\ note' = None
         /\ UNCHANGED <<accounts, chain_id, chan, waitq, wcc, pending>>

\* connect_wc: WalletConnect::connect and initiate_session both may fail;
\* a non-empty url means the pairing is pending, an empty url that the
\* session was resumed from the given state.
\* what initiate_session can answer: the pairing uri of a new session
\* (Some), or the empty url (None) of a session resumed from a given state
SessionUrls(state) ==
    IF state = None THEN {Some("uri")} ELSE {Some("uri"), None}

\* a connect that asks for the pairing also when the session was resumed
SessionEvents_AlwaysWaiting(url, c, a) ==
    <<ConnectionWaiting(IF url = None THEN "" ELSE url[1])>>

\* the sends of connect_wc once the backend is set: c and a are the
\* snapshot's chain_id and accounts
SessionEvents(url, c, a) ==
    IF url # None THEN <<ConnectionWaiting(url[1])>>
    ELSE <<Connected, ChainIdChanged(c), AccountsChanged(a)>>

connect_wc(orig, state) ==
    IF ~walletconnect_available(wc_project_id)
    THEN /\ result' = Returned(orig, "Unavailable")
         /\ sent' = <<>>
         /\ note' = None
         /\ UNCHANGED <<mgr, chan, waitq, listeners, wcc, pc, pending,
                        origin, mark>>
    ELSE \/ /\ result' = Returned(orig, "WalletConnectClientError")
            /\ sent' = <<>>
            /\ note' = None
            /\ UNCHANGED <<mgr, chan, waitq, listeners, wcc, pc, pending,
                           origin, mark>>
         \/ \E url \in SessionUrls(state) :
               /\ wallet' = "WalletConnect"
               /\ wc_chain' = IF chain_id = None THEN 1 ELSE chain_id[1]
               /\ wc_accts' \in IF url = None THEN GrantChoices ELSE {NoGrants}
               /\ note' = Some(<<"url", url>>)
               /\ Emit(SessionEvents(url, chain_id, accounts),
                       Returned(orig, "Ok"))
               /\ UNCHANGED <<accounts, chain_id, listeners, origin, mark>>

Connect(kind) ==
    /\ pc = "idle"
    /\ nCalls < MaxCalls /\ Budget
    /\ (kind = "Injected" /\ host /\ ~AlreadyConnected(wallet))
          => listeners < MaxListeners
    /\ nCalls' = nCalls + 1
    /\ op' = "connect"
    /\ arg' = kind
    /\ event' = None
    /\ UNCHANGED <<cfg, bnd, storage, nNotifs, nRelay>>
    /\ IF AlreadyConnected(wallet)
       THEN /\ result' = "AlreadyConnected"
            /\ sent' = <<>>
            /\ note' = None
            /\ UNCHANGED <<mgr, chan, waitq, listeners, wcc, pc, pending,
                           origin, mark>>
       ELSE IF kind = "Injected" THEN connect_injected("connect")
            ELSE connect_wc("connect", None)

\* eth_requestAccounts answers: self.accounts = Some(..) or the error is
\* returned (self.wallet stays as set before the request).
AccountsResponse(r) ==
    /\ pc = "ci_accounts"
    /\ op' = "accountsResp"
    /\ arg' = "-"
    /\ note' = None
    /\ event' = None
    /\ sent' = <<>>
    /\ IF r = None
       THEN /\ pc' = "idle"
            /\ result' = Returned(origin, "Eip1193Error")
            /\ UNCHANGED accounts
       ELSE /\ pc' = "ci_chain"
            /\ result' = "Pending"
            /\ accounts' = r
    /\ UNCHANGED <<cfg, bnd, wallet, chain_id, chan, waitq, listeners, storage,
                   wcc, pending, origin, mark, nCalls, nNotifs, nRelay>>

\* eth_chainId answers: self.chain_id = Some(low_u64) and the three events
\* are sent, or the error is returned.
ChainResponse(r) ==
    /\ pc = "ci_chain"
    /\ op' = "chainResp"
    /\ arg' = "-"
    /\ note' = Some(<<"eth_chainId", r>>)
    /\ event' = None
    /\ IF r = None
       THEN /\ pc' = "idle"
            /\ result' = Returned(origin, "Eip1193Error")
            /\ sent' = <<>>
            /\ UNCHANGED <<chain_id, chan, waitq, pending>>
       ELSE /\ chain_id' = Some(LowU64(r[1]))
            /\ Emit(<<Connected, ChainIdChanged(Some(LowU64(r[1]))),
                      AccountsChanged(accounts)>>, Returned(origin, "Ok"))
    /\ UNCHANGED <<cfg, bnd, wallet, accounts, listeners, storage, wcc, origin,
                   mark, nCalls, nNotifs, nRelay>>

Handshake ==
    \/ \E r \in {None} \cup {Some(l) : l \in AccountLists} : AccountsResponse(r)
    \/ \E r \in {None} \cup {Some(v) : v \in U256Values} : ChainResponse(r)

\* ---------------------------------------------------------- disconnect
\* a disconnect that forgets self.accounts = None
disconnect_state_KeepsAccounts(w, a, c) == <<"None", a, c>>

disconnect_state_ClearsChain(w, a, c) == <<"None", None, None>>

\* self.wallet = WebProvider::None; self.accounts = None (chain_id is not
\* assigned)
disconnect_state(w, a, c) == <<"None", None, c>>

\* a disconnect that sends nothing
DisconnectEvents_Silent == <<>>

\* a disconnect that announces the cleared accounts first
DisconnectEvents_WithAccounts == <<AccountsChanged(None), Disconnected>>

\* what disconnect() sends
DisconnectEvents == <<Disconnected>>

\* disconnect(): no check of the current backend. The await of the relay
\* client's disconnect comes before any assignment, so a notification that
\* fires during it is the same as one that fired before the call. The relay
\* client goes with the provider that held it.
Disconnect ==
    /\ pc = "idle"
    /\ nCalls < MaxCalls /\ Budget
    /\ nCalls' = nCalls + 1
    /\ op' = "disconnect"
    /\ arg' = wallet
    /\ note' = None
    /\ event' = None
    /\ LET s == disconnect_state(wallet, accounts, chain_id)
       IN wallet' = s[1] /\ accounts' = s[2] /\ chain_id' = s[3]
    /\ wc_chain' = DefaultChain
    /\ wc_accts' = NoGrants
    /\ Emit(DisconnectEvents, "Ok")
    /\ UNCHANGED <<cfg, bnd, listeners, storage, origin, mark, nNotifs, nRelay>>

\* disconnect() on a clone of the manager while the owner's next() is
\* suspended: #[derive(Clone)] copies wallet, accounts and chain_id and
\* shares the channel, so the clone's assignments stay in the clone and its
\* send reaches the channel the suspended next() waits on.
DisconnectOnClone ==
    /\ pc = "next_wait"
    /\ nCalls < MaxCalls /\ Budget
    /\ nCalls' = nCalls + 1
    /\ op' = "disconnect_clone"
    /\ arg' = "-"
    /\ note' = None
    /\ result' = "Ok"
    /\ event' = None
    /\ LET r == RunSpawned(chan, waitq,
                           <<[src |-> <<"clone", None>>,
                              evs |-> DisconnectEvents]>>)
       IN /\ chan' = r[1]
          /\ waitq' = r[2]
          /\ sent' = SubSeq(r[1], Len(chan) + 1, Len(r[1]))
    /\ UNCHANGED <<cfg, bnd, mgr, listeners, storage, wcc, pc, pending, origin,
                   mark, nNotifs, nRelay>>

\* ------------------------------------------------------ switch_network
\* a switch that takes any granted list, the empty one included
switch_granted_AnyList(w, granted) == w = "WalletConnect" /\ granted # None

\* the way to the switch: a WalletConnect backend whose accounts_for_chain
\* is Some(accounts) with accounts not empty
switch_granted(w, granted) ==
    /\ w = "WalletConnect"
    /\ granted # None
    /\ granted[1] # <<>>

\* a switch that announces the accounts before the chain
SwitchEvents_AccountsFirst(c, a) == <<AccountsChanged(a), ChainIdChanged(Some(c))>>

\* the two sends of a switch
SwitchEvents(c, a) == <<ChainIdChanged(Some(c)), AccountsChanged(a)>>

SwitchNetwork(c) ==
    /\ pc = "idle"
    /\ nCalls < MaxCalls /\ Budget
    /\ nCalls' = nCalls + 1
    /\ op' = "switch_network"
    /\ arg' = ToString(c)
    /\ note' = None
    /\ event' = None
    /\ IF switch_granted(wallet, wc_accts[c])
       THEN /\ accounts' = wc_accts[c]
            /\ chain_id' = Some(c)
            /\ wc_chain' = c
            /\ Emit(SwitchEvents(c, wc_accts[c]), "Ok")
            /\ UNCHANGED <<wallet, wc_accts>>
       ELSE /\ result' = "Unavailable"
            /\ sent' = <<>>
            /\ UNCHANGED <<mgr, chan, waitq, wcc, pc, pending>>
    /\ UNCHANGED <<cfg, bnd, listeners, storage, origin, mark, nNotifs, nRelay>>

\* ------------------------------------------------------------- restore
\* restore(): no check of the current backend; the stored record alone
\* picks connect_injected or connect_wc(Some(state)).
\* a restore() that tries the host wallet whatever the record holds
restore_target_AlwaysInjected(st) == "Injected"

\* the connect restore() attempts for the record st it has read: the match
\* on state.wc_state
restore_target(st) ==
    IF st.wc_state = None THEN "Injected" ELSE "WalletConnect"

Restore ==
    /\ pc = "idle"
    /\ nCalls < MaxCalls /\ Budget
    /\ (storage # None /\ restore_target(storage[1]) = "Injected" /\ host)
          => listeners < MaxListeners
    /\ nCalls' = nCalls + 1
    /\ op' = "restore"
    /\ arg' = "-"
    /\ event' = None
    /\ UNCHANGED <<cfg, bnd, storage, nNotifs, nRelay>>
    /\ IF storage = None
       THEN /\ result' = "false"
            /\ sent' = <<>>
            /\ note' = None
            /\ UNCHANGED <<mgr, chan, waitq, listeners, wcc, pc, pending,
                           origin, mark>>
       ELSE IF restore_target(storage[1]) = "Injected"
            THEN connect_injected("restore")
            ELSE connect_wc("restore", storage[1].wc_state)

\* ---------------------------------------------------------------- next
collect_state(w, c, wcch) ==
    IF w = "WalletConnect"
    THEN [chain_id |-> Some(wcch), wc_state |-> Some("wc_state")]
    ELSE [chain_id |-> c, wc_state |-> None]

\* LocalStorage[STATUS_KEY] after next() has handled e
Persist_NeverDeletes(e, st) == Some(st)

Persist(e, st) == IF ~is_connection_established(e) THEN None ELSE Some(st)

\* a next() that answers Broken by announcing a disconnect
FollowUp_BrokenDisconnects(e, w, wcch, wcacc) ==
    IF e = Broken THEN <<Disconnected>>
    ELSE IF e = Connected /\ w = "WalletConnect"
    THEN <<ChainIdChanged(Some(wcch)), AccountsChanged(wcacc[wcch])>>
    ELSE <<>>

\* a next() that sends the follow-up events on every backend
FollowUp_AnyBackend(e, w, wcch, wcacc) ==
    IF e = Connected
    THEN <<ChainIdChanged(Some(wcch)), AccountsChanged(wcacc[wcch])>>
    ELSE <<>>

\* the events next() sends after it has drained e
FollowUp(e, w, wcch, wcacc) ==
    IF e = Connected /\ w = "WalletConnect"
    THEN <<ChainIdChanged(Some(wcch)), AccountsChanged(wcacc[wcch])>>
    ELSE <<>>

\* impl From<walletconnect_client::event::Event> for Event
FromWc(n) == IF n[1] = "ChainIdChanged" THEN ChainIdChanged(Some(n[2])) ELSE n

\* next() from the event e on: c1 is the channel after the receive. A slot
\* freed by the receive while senders wait belongs to the first of them.
Handle(e, c1) ==
    LET follow == FollowUp(e, wallet, wc_chain', wc_accts')
        avail == IF waitq # <<>> THEN 0 ELSE Capacity - Len(c1)
        p == SubSeq(follow, 1, Min(Len(follow), avail))
        r == RunTasks(c1 \o p, waitq)
    IN /\ chan' = r[1]
       /\ waitq' = r[2]
       /\ sent' = p
       /\ IF Len(p) = Len(follow)
          THEN /\ storage' = Persist(e, collect_state(wallet, chain_id, wc_chain'))
               /\ result' = "Some"
               /\ event' = Some(e)
               /\ pc' = "idle"
               /\ UNCHANGED pending
          ELSE /\ pc' = "blocked"
               /\ pending' = SubSeq(follow, Len(p) + 1, Len(follow))
               /\ result' = "Pending"
               /\ event' = None
               /\ UNCHANGED storage

\* the arm recvr.recv() of next()
NextRecv ==
    /\ pc = "idle"
    /\ chan # <<>>
    /\ op' = "next"
    /\ arg' = "recv"
    /\ note' = None
    /\ UNCHANGED wcc
    /\ Handle(Head(chan), Tail(chan))
    /\ UNCHANGED <<cfg, bnd, mgr, listeners, origin, mark, nCalls, nNotifs, nRelay>>

\* next() called on an empty channel: the call is suspended in recv (on a
\* WalletConnect backend, in the race of recv and the relay poll)
NextSuspend ==
    /\ pc = "idle"
    /\ chan = <<>>
    /\ pc' = "next_wait"
    /\ op' = "next"
    /\ arg' = "recv"
    /\ note' = None
    /\ result' = "Pending"
    /\ event' = None
    /\ sent' = <<>>
    /\ UNCHANGED <<cfg, bnd, mgr, chan, waitq, listeners, storage, wcc, pending,
                   origin, mark, nCalls, nNotifs, nRelay>>

\* the suspended recv is woken by an event in the channel
NextResume ==
    /\ pc = "next_wait"
    /\ chan # <<>>
    /\ op' = "next"
    /\ arg' = "recv"
    /\ note' = None
    /\ UNCHANGED wcc
    /\ Handle(Head(chan), Tail(chan))
    /\ UNCHANGED <<cfg, bnd, mgr, listeners, origin, mark, nCalls, nNotifs, nRelay>>

\* what the relay client has done by the time its next() yields n: a settled
\* session has its granted accounts, a chain or accounts change is the
\* client's new active chain or account list
RelayClient(n) ==
    CASE n[1] = "Connected" -> wc_chain' = wc_chain /\ wc_accts' \in GrantChoices
      [] n[1] = "ChainIdChanged" -> wc_chain' = n[2] /\ wc_accts' = wc_accts
      [] n[1] = "AccountsChanged" ->
            wc_chain' = wc_chain /\ wc_accts' = [wc_accts EXCEPT ![wc_chain] = n[2]]
      [] OTHER -> UNCHANGED wcc

\* the arm provider.next() of next(), taken on a WalletConnect backend:
\* Ok(Some(n)) with n converted, Ok(None), or the error returned by `?`
NextRelaySome(n) ==
    /\ pc \in {"idle", "next_wait"}
    /\ wallet = "WalletConnect"
    /\ nRelay < MaxRelay /\ Budget
    /\ nRelay' = nRelay + 1
    /\ op' = "next"
    /\ arg' = "relay"
    /\ note' = None
    /\ RelayClient(n)
    /\ Handle(FromWc(n), chan)
    /\ UNCHANGED <<cfg, bnd, mgr, listeners, origin, mark, nCalls, nNotifs>>

\* a next() that takes a failed poll for the end of the session
NextRelayEmpty_ErrorDeletes(res) ==
    /\ pc \in {"idle", "next_wait"}
    /\ wallet = "WalletConnect"
    /\ nRelay < MaxRelay /\ Budget
    /\ nRelay' = nRelay + 1
    /\ op' = "next"
    /\ arg' = "relay"
    /\ note' = None
    /\ result' = res
    /\ event' = None
    /\ sent' = <<>>
    /\ pc' = "idle"
    /\ storage' = IF res = "WalletConnectError" THEN None ELSE storage
    /\ UNCHANGED <<cfg, bnd, mgr, chan, waitq, listeners, wcc,
                   pending, origin, mark, nCalls, nNotifs>>

\* the arm provider.next() yielding Ok(None), or Err(e), which `?` returns
\* from next() before anything is sent or stored
NextRelayEmpty(res) ==
    /\ pc \in {"idle", "next_wait"}
    /\ wallet = "WalletConnect"
    /\ nRelay < MaxRelay /\ Budget
    /\ nRelay' = nRelay + 1
    /\ op' = "next"
    /\ arg' = "relay"
    /\ note' = None
    /\ result' = res
    /\ event' = None
    /\ sent' = <<>>
    /\ pc' = "idle"
    /\ UNCHANGED <<cfg, bnd, mgr, chan, waitq, listeners, storage, wcc,
                   pending, origin, mark, nCalls, nNotifs>>

NextCall ==
    \/ NextRecv
    \/ NextSuspend
    \/ NextResume
    \/ \E t \in {"Connected", "Disconnected", "Broken"} : NextRelaySome(<<t, None>>)
    \/ \E c \in Chains : NextRelaySome(<<"ChainIdChanged", c>>)
    \/ \E a \in {None, Some(<<"a1">>)} : NextRelaySome(<<"AccountsChanged", a>>)
    \/ \E res \in {"None", "WalletConnectError"} : NextRelayEmpty(res)

\* ------------------------------------------- request, sign_typed_data
\* a routing that hands the call to the host bridge when there is no backend
RequestOutcomes_NoneToHost(w) ==
    CASE w = "WalletConnect" -> {"Ok", "WalletConnectError"}
      [] OTHER -> {"Ok", "Eip1193Error"}

\* request() and sign_typed_data() match on self.wallet: NotConnected for
\* None, else the result of the backend's own call, Ok or its error wrapped
RequestOutcomes(w) ==
    CASE w = "None" -> {"NotConnected"}
      [] w = "Injected" -> {"Ok", "Eip1193Error"}
      [] w = "WalletConnect" -> {"Ok", "WalletConnectError"}

\* the call: arg is the backend whose method ran, "-" when none did
Request(method) ==
    /\ pc = "idle"
    /\ op' = method
    /\ result' \in RequestOutcomes(wallet)
    /\ arg' = IF result' = "NotConnected" THEN "-"
              ELSE IF result' \in {"Ok", "Eip1193Error"} /\ wallet # "WalletConnect"
                   THEN "Injected" ELSE "WalletConnect"
    /\ note' = None
    /\ event' = None
    /\ sent' = <<>>
    /\ UNCHANGED <<cfg, bnd, mgr, chan, waitq, listeners, storage, wcc, pc,
                   pending, origin, mark, nCalls, nNotifs, nRelay>>

\* ------------------------------------------------------- specification
Next ==
    \/ \E k \in {"Injected", "WalletConnect"} : Connect(k)
    \/ Handshake
    \/ Disconnect
    \/ DisconnectOnClone
    \/ \E c \in Chains : SwitchNetwork(c)
    \/ Restore
    \/ NextCall
    \/ Notify
    \/ AvailableWallets

Spec == Init /\ [][Next]_vars

\* the runtime polls a woken task: a next() suspended in recv goes on once
\* the channel holds an event
LiveSpec == Spec /\ WF_vars(NextResume)

\* the calls that set or read the backend: connect, disconnect, restore,
\* next, request and sign_typed_data
RequestNext ==
    \/ \E k \in {"Injected", "WalletConnect"} : Connect(k)
    \/ Handshake
    \/ Disconnect
    \/ Restore
    \/ NextRecv
    \/ \E t \in {"Connected", "Disconnected", "Broken"} : NextRelaySome(<<t, None>>)
    \/ \E res \in {"None", "WalletConnectError"} : NextRelayEmpty(res)
    \/ \E m \in {"request", "sign_typed_data"} : Request(m)

RequestSpec == Init /\ [][RequestNext]_vars

\* An injected session under load: the events of connect were drained and
\* the channel holds, undrained, the ChainIdChanged events of earlier
\* chainChanged notifications, up to its capacity.
Backlog(n) == [i \in 1..n |-> ChainIdChanged(Some(IF i % 2 = 1 THEN 2 ELSE 1))]

FullInit ==
    /\ host = TRUE
    /\ wc_project_id \in BOOLEAN
    /\ wallet = "Injected"
    /\ accounts = Some(<<"a1">>)
    /\ chain_id = Some(DefaultChain)
    /\ chan \in {Backlog(n) : n \in (Capacity - 2)..Capacity}
    /\ waitq = <<>>
    /\ listeners = 1
    /\ storage = Some(collect_state("Injected", Some(DefaultChain), DefaultChain))
    /\ wc_chain = DefaultChain
    /\ wc_accts = NoGrants
    /\ pc = "idle"
    /\ pending = <<>>
    /\ origin = "connect"
    /\ mark = 0
    /\ op = "new"
    /\ arg = "-"
    /\ result = "-"
    /\ event = None
    /\ sent = <<>>
    /\ note = None
    /\ nCalls = 0
    /\ nNotifs = 0
    /\ nRelay = 0
    /\ ui = NoUi
    /\ loops = <<>>

\* the host goes on notifying, the owner drains or disconnects
FullNext ==
    \/ Notify
    \/ NextRecv
    \/ Disconnect

FullSpec == FullInit /\ [][FullNext]_vars

\* A resumed relay session under load: connect_wc has sent Connected, the
\* listeners of an earlier injected session are still registered with the
\* host, and their ChainIdChanged events have piled up behind Connected.
WcFullInit ==
    /\ host = TRUE
    /\ wc_project_id = TRUE
    /\ wallet = "WalletConnect"
    /\ accounts = None
    /\ chain_id = Some(DefaultChain)
    /\ chan \in {<<Connected>> \o Backlog(n) : n \in (Capacity - 3)..(Capacity - 1)}
    /\ waitq = <<>>
    /\ listeners = 1
    /\ storage \in StoredStates
    /\ wc_chain = DefaultChain
    /\ wc_accts \in GrantChoices
    /\ pc = "idle"
    /\ pending = <<>>
    /\ origin = "connect"
    /\ mark = 0
    /\ op = "new"
    /\ arg = "-"
    /\ result = "-"
    /\ event = None
    /\ sent = <<>>
    /\ note = None
    /\ nCalls = 0
    /\ nNotifs = 0
    /\ nRelay = 0
    /\ ui = NoUi
    /\ loops = <<>>

\* the host goes on notifying, the owner calls next(), which takes an event
\* from the channel or a Connected from the relay
WcFullNext ==
    \/ Notify
    \/ NextRecv
    \/ NextRelaySome(<<"Connected", None>>)

WcFullSpec == WcFullInit /\ [][WcFullNext]_vars

\* ------------------------------------------------------ the UI bindings
\* The Yew hook and the Leptos context keep the manager in a state cell,
\* run connect, disconnect and restore on a clone of it and store the clone
\* back, and read the events in a loop of next() calls on a clone. Here the
\* calls of a binding run one at a time and the host grants the handshake.
Kits == {"yew", "leptos"}

\* EthereumState of leptos.rs, the local state of run()
LocalState ==
    [connected |-> FALSE, accounts |-> None, chain_id |-> None,
     pairing_url |-> None]

\* connect or restore has just stored a manager with a backend: the Yew
\* effect on the cell runs (has_provider), the Leptos task goes on to run()
EffectPending ==
    /\ wallet # "None"
    /\ pc = "idle"
    /\ op \in {"connect", "restore", "accountsResp", "chainResp"}
    /\ result \in {"Ok", "true"}

\* the loop is started on a clone of the manager just stored; nothing ends
\* a loop started before
LoopStart ==
    /\ EffectPending
    /\ loops' = Append(loops, [id |-> ui.started + 1, wallet |-> wallet,
                               chain_id |-> chain_id, st |-> LocalState])
    /\ ui' = [ui EXCEPT !.started = @ + 1]
    /\ op' = "run"
    /\ arg' = ui.kit
    /\ result' = "-"
    /\ event' = None
    /\ sent' = <<>>
    /\ note' = None
    /\ UNCHANGED <<cfg, mgr, chan, waitq, listeners, storage, wcc, pc,
                   pending, origin, mark, nCalls, nNotifs, nRelay>>

\* the match of the Yew loop: one state handle set per event
YewApply(u, e) ==
    CASE e[1] = "ConnectionWaiting" -> [u EXCEPT !.pairing_url = Some(e[2])]
      [] e[1] = "Connected" -> [u EXCEPT !.connected = TRUE, !.pairing_url = None]
      [] e[1] = "Disconnected" ->
            [u EXCEPT !.connected = FALSE, !.accounts = None, !.chain_id = None]
      [] e[1] = "Broken" -> u
      [] e[1] = "ChainIdChanged" -> [u EXCEPT !.chain_id = e[2]]
      [] e[1] = "AccountsChanged" -> [u EXCEPT !.accounts = e[2]]

\* the match of run() in leptos.rs on its local state
LeptosApply(st, e) ==
    CASE e[1] = "ConnectionWaiting" -> [st EXCEPT !.pairing_url = Some(e[2])]
      [] e[1] = "Connected" -> [st EXCEPT !.connected = TRUE, !.pairing_url = None]
      [] e[1] = "Disconnected" -> [st EXCEPT !.connected = FALSE]
      [] e[1] = "Broken" -> st
      [] e[1] = "ChainIdChanged" -> [st EXCEPT !.chain_id = e[2]]
      [] e[1] = "AccountsChanged" -> [st EXCEPT !.accounts = e[2]]

\* the loop that holds the receiver has got e from next(): it shows it and
\* asks for the receiver again, behind the loops that wait for it. The Yew
\* loop ends on Disconnected; the Leptos loop sets the signal to its local
\* state, except on Broken, and ends on an error only.
LoopHandles(e) ==
    LET l == Head(loops)
        st == LeptosApply(l.st, e)
    IN IF ui.kit = "yew"
       THEN /\ ui' = YewApply(ui, e)
            /\ loops' = IF e = Disconnected THEN Tail(loops)
                        ELSE Append(Tail(loops), l)
       ELSE /\ ui' = IF e = Broken THEN ui
                     ELSE [ui EXCEPT !.connected = st.connected,
                                     !.accounts = st.accounts,
                                     !.chain_id = st.chain_id,
                                     !.pairing_url = st.pairing_url]
            /\ loops' = Append(Tail(loops), [l EXCEPT !.st = st])

\* next() on the loop's clone takes the first event of the channel: the
\* follow-up events and the persisted record are those of the clone's
\* backend and chain id
LoopRecv ==
    /\ ~EffectPending
    /\ loops # <<>>
    /\ chan # <<>>
    /\ pc # "blocked" /\ waitq = <<>>
    /\ LET l == Head(loops)
           e == Head(chan)
           follow == FollowUp(e, l.wallet, wc_chain, wc_accts)
       IN /\ Len(chan) - 1 + Len(follow) <= Capacity
          /\ chan' = Tail(chan) \o follow
          /\ sent' = follow
          /\ storage' = Persist(e, collect_state(l.wallet, l.chain_id, wc_chain))
          /\ event' = Some(e)
          /\ LoopHandles(e)
    /\ op' = "loop"
    /\ arg' = "recv"
    /\ result' = "Some"
    /\ note' = None
    /\ UNCHANGED <<cfg, mgr, waitq, listeners, wcc, pc, pending, origin,
                   mark, nCalls, nNotifs, nRelay>>

\* next() on the clone of a relay session gets n from the relay poll
LoopRelay(n) ==
    /\ ~EffectPending
    /\ loops # <<>>
    /\ Head(loops).wallet = "WalletConnect"
    /\ wallet = "WalletConnect"
    /\ pc # "blocked" /\ waitq = <<>>
    /\ nRelay < MaxRelay /\ Budget
    /\ nRelay' = nRelay + 1
    /\ RelayClient(n)
    /\ LET l == Head(loops)
           e == FromWc(n)
           follow == FollowUp(e, l.wallet, wc_chain', wc_accts')
       IN /\ Len(chan) + Len(follow) <= Capacity
          /\ chan' = chan \o follow
          /\ sent' = follow
          /\ storage' = Persist(e, collect_state(l.wallet, l.chain_id, wc_chain'))
          /\ event' = Some(e)
          /\ LoopHandles(e)
    /\ op' = "loop"
    /\ arg' = "relay"
    /\ result' = "Some"
    /\ note' = None
    /\ UNCHANGED <<cfg, mgr, waitq, listeners, pc, pending, origin, mark,
                   nCalls, nNotifs>>

\* the relay poll fails: next() returns the error and the loop ends
LoopRelayError ==
    /\ ~EffectPending
    /\ loops # <<>>
    /\ Head(loops).wallet = "WalletConnect"
    /\ wallet = "WalletConnect"
    /\ nRelay < MaxRelay /\ Budget
    /\ nRelay' = nRelay + 1
    /\ loops' = Tail(loops)
    /\ op' = "loop"
    /\ arg' = "relay"
    /\ result' = "WalletConnectError"
    /\ event' = None
    /\ sent' = <<>>
    /\ note' = None
    /\ UNCHANGED <<cfg, ui, mgr, chan, waitq, listeners, storage, wcc, pc,
                   pending, origin, mark, nCalls, nNotifs>>

\* connect(wallet_type) of a binding that shows no connection: its own
\* disconnect() does nothing and connect runs on a clone of the cell. While
\* a connection is shown the clone has a backend, connect fails on it and
\* is not stored: what is left of the call is its disconnect().
BindConnect(kind) == ~EffectPending /\ ~ui.connected /\ Connect(kind)

\* disconnect() of a binding acts only while it shows a connection
BindDisconnect == ~EffectPending /\ ui.connected /\ Disconnect

\* the Yew hook calls restore() once, when it is mounted
BindRestore == ui.kit = "yew" /\ op = "new" /\ Restore

BindHandshake ==
    /\ ~EffectPending
    /\ \/ \E l \in AccountLists : AccountsResponse(Some(l))
       \/ \E v \in U256Values : ChainResponse(Some(v))

BindNotify == ~EffectPending /\ Notify

BindingInit ==
    /\ Constructed
    /\ ui \in {UiState(k) : k \in Kits}
    /\ loops = <<>>

BindingNext ==
    \/ LoopStart
    \/ LoopRecv
    \/ \E t \in {"Connected", "Disconnected", "Broken"} : LoopRelay(<<t, None>>)
    \/ \E c \in Chains : LoopRelay(<<"ChainIdChanged", c>>)
    \/ \E a \in {None, Some(<<"a1">>)} : LoopRelay(<<"AccountsChanged", a>>)
    \/ LoopRelayError
    \/ \E k \in {"Injected", "WalletConnect"} : BindConnect(k)
    \/ BindDisconnect
    \/ BindRestore
    \/ BindHandshake
    \/ BindNotify

BindingSpec == BindingInit /\ [][BindingNext]_vars

\* ------------------------------------------------- the pure functions
\* the events is_connection_established() is asked about
EventValues ==
    {Connected, Disconnected, Broken, ConnectionWaiting("uri")}
    \cup {ChainIdChanged(c) : c \in {None, Some(1), Some(2)}}
    \cup {AccountsChanged(a) : a \in HostAccounts}

IsConnectionEstablished(e) ==
    /\ op' = "is_connection_established"
    /\ arg' = "-"
    /\ event' = Some(e)
    /\ result' = IF is_connection_established(e) THEN "true" ELSE "false"
    /\ note' = None
    /\ sent' = <<>>
    /\ UNCHANGED <<cfg, bnd, mgr, chan, waitq, listeners, storage, wcc, pc,
                   pending, origin, mark, nCalls, nNotifs, nRelay>>

\* rpc_node as the builder may have set it: none, a URL, a string that is
\* no URL
RpcUrls == {None, Some("http://node"), Some("node")}

\* Http::from_str(&url).is_ok()
HttpFromStrOk(url) == url = "http://node"

\* WalletConnectProvider::new: the fallback provider, kept only when the
\* configured string parses
WalletConnectProvider_new(rpc_url) ==
    IF rpc_url # None /\ HttpFromStrOk(rpc_url[1]) THEN rpc_url ELSE None

\* a routing that prefers the fallback endpoint
wc_request_FallbackFirst(supported, provider, chain) ==
    IF provider # None THEN <<"fallback", provider>>
    ELSE IF supported THEN <<"relay", Some(chain)>>
    ELSE <<"MissingProvider", None>>

\* WalletConnectProvider::request: where the call goes, with the chain id
\* handed to the relay client or the endpoint asked
wc_request(supported, provider, chain) ==
    IF supported THEN <<"relay", Some(chain)>>
    ELSE IF provider # None THEN <<"fallback", provider>>
    ELSE <<"MissingProvider", None>>

WcRequest(supported, rpc_url, chain) ==
    /\ op' = "wc_request"
    /\ arg' = "-"
    /\ note' = Some(<<"wc_request", <<supported, rpc_url, chain>>,
                      wc_request(supported, WalletConnectProvider_new(rpc_url),
                                 chain)>>)
    /\ result' = "-"
    /\ event' = None
    /\ sent' = <<>>
    /\ UNCHANGED <<cfg, bnd, mgr, chan, waitq, listeners, storage, wcc, pc,
                   pending, origin, mark, nCalls, nNotifs, nRelay>>

\* JSON values as parse_params meets them. An element of the params array
\* is <<kind, type, rest>>: kind "obj" for an object, whose "type" field is
\* a string, "absent" or "num" (not a string) and whose other fields are
\* rest; kind "str" for a string, held in the second place. The params
\* themselves are null, an array of elements, an object (a serialized
\* struct) given by its "type" field and its numeric "length" field, 0 for
\* an object that has none, or a value whose Serialize implementation
\* fails.
MaxParams == 2
Undefined == <<"undef", "-", "-">>
JsonElems ==
    {<<"obj", t, "a">> : t \in {"0x01", "0x02", "0x03", "0x1", "0x04",
                                "absent", "num"}}
    \cup {<<"str", "0x01", "-">>}
JsonParams ==
    {<<"null", <<>>>>, <<"unserializable", <<>>>>}
    \cup {<<"object", <<t, l>>>> : t \in {"0x01", "absent"}, l \in 0..1}
    \cup {<<"array", a>> : a \in UNION {[1..n -> JsonElems] : n \in 0..MaxParams}}
Methods == {"eth_sendTransaction", "wallet_watchAsset"}

\* a rewrite that knows only two of the three types
rewrite_type_TwoOnly(v) ==
    IF v[1] = "obj" /\ v[2] \in {"0x01", "0x02"}
    THEN <<"obj", IF v[2] = "0x01" THEN "0x1" ELSE "0x2", v[3]>>
    ELSE v

\* the closure mapped over the array: an object whose "type" is one of the
\* three strings gets it replaced, anything else is returned as it is
rewrite_type(v) ==
    IF v[1] = "obj" /\ v[2] \in {"0x01", "0x02", "0x03"}
    THEN <<"obj",
           CASE v[2] = "0x01" -> "0x1"
             [] v[2] = "0x02" -> "0x2"
             [] v[2] = "0x03" -> "0x3",
           v[3]>>
    ELSE v

\* an Array.from that gives nothing for whatever is not an array
ArrayFrom_ArraysOnly(params) == IF params[1] = "array" THEN params[2] ELSE <<>>

\* js_sys::Array::from: the elements of an array; for an object that is
\* not iterable, as many undefined elements as its "length" field says
ArrayFrom(params) ==
    IF params[1] = "array" THEN params[2]
    ELSE [i \in 1..params[2][2] |-> Undefined]

\* JsValue::from_serde(&params)? comes first and returns the error of a
\* value that does not serialize
parse_params(params, method) ==
    IF params[1] = "unserializable" THEN <<"Err", <<>>>>
    ELSE IF params[1] = "null" THEN <<"array", <<>>>>
    ELSE IF method = "wallet_watchAsset" THEN params
    ELSE <<"array", [i \in 1..Len(ArrayFrom(params)) |->
                        rewrite_type(ArrayFrom(params)[i])]>>

ParseParams(params, method) ==
    /\ op' = "parse_params"
    /\ arg' = method
    /\ note' = Some(<<"parse_params", params, parse_params(params, method)>>)
    /\ result' = IF parse_params(params, method)[1] = "Err" THEN "Err" ELSE "Ok"
    /\ event' = None
    /\ sent' = <<>>
    /\ UNCHANGED <<cfg, bnd, mgr, chan, waitq, listeners, storage, wcc, pc,
                   pending, origin, mark, nCalls, nNotifs, nRelay>>

\* Strings the code looks into are sequences of one-character strings.
\* The chain strings of a wallet listing: CAIP-2 ids of EVM chains, of
\* another namespace, and strings that only look like one.
MaxChains == 2
Eip155 == <<"e", "i", "p", "1", "5", "5", ":">>
ChainStrings ==
    {Eip155 \o <<"1">>, Eip155 \o <<"2">>, Eip155 \o <<"1", "0">>,
     Eip155 \o <<"x">>, Eip155,
     <<"e", "i", "p", "1", "5", "5", "1">>,
     <<"s", "o", "l", ":", "1">>}
WalletDatas ==
    [chains : UNION {[1..n -> ChainStrings] : n \in 0..MaxChains},
     native : BOOLEAN]

DigitChars == {"0", "1", "2", "3", "4", "5", "6", "7", "8", "9"}
DigitValue(ch) ==
    CASE ch = "0" -> 0 [] ch = "1" -> 1 [] ch = "2" -> 2 [] ch = "3" -> 3
      [] ch = "4" -> 4 [] ch = "5" -> 5 [] ch = "6" -> 6 [] ch = "7" -> 7
      [] ch = "8" -> 8 [] ch = "9" -> 9

RECURSIVE DecimalValue(_)
DecimalValue(s) ==
    IF s = <<>> THEN 0
    ELSE 10 * DecimalValue(SubSeq(s, 1, Len(s) - 1)) + DigitValue(s[Len(s)])

\* str::parse::<u64>().ok(): an optional '+', then one digit or more, and
\* nothing else (the strings here are too short to overflow 64 bits)
parse_u64(s) ==
    LET body == IF s # <<>> /\ s[1] = "+" THEN Tail(s) ELSE s
    IN IF body = <<>> \/ \E i \in 1..Len(body) : body[i] \notin DigitChars
       THEN None
       ELSE Some(DecimalValue(body))

starts_with(c, prefix) ==
    Len(c) >= Len(prefix) /\ SubSeq(c, 1, Len(prefix)) = prefix

\* the closure given to filter_map: c[6..] is the string from its seventh
\* character on, which for "eip155:1" is ":1"
chain_of(c) ==
    IF starts_with(c, Eip155) THEN parse_u64(SubSeq(c, 7, Len(c))) ELSE None

\* filter_map(..).collect(): the values of the elements that gave Some, in
\* the order of the input
RECURSIVE filter_map_chains(_)
filter_map_chains(cs) ==
    IF cs = <<>> THEN <<>>
    ELSE chain_of(Head(cs)) \o filter_map_chains(Tail(cs))

\* TryInto<WalletDescription> for &WalletData: the chains of the
\* description, or BadWallet for a listing without a native link
TryIntoWallet(w) ==
    /\ op' = "try_into"
    /\ arg' = "-"
    /\ note' = Some(<<"try_into", w.chains,
                      IF w.native THEN filter_map_chains(w.chains) ELSE <<>>>>)
    /\ result' = IF w.native THEN "Ok" ELSE "BadWallet"
    /\ event' = None
    /\ sent' = <<>>
    /\ UNCHANGED <<cfg, bnd, mgr, chan, waitq, listeners, storage, wcc, pc,
                   pending, origin, mark, nCalls, nNotifs, nRelay>>

\* the functions applied to inputs drawn from the sets above
FnNext ==
    \/ \E e \in EventValues : IsConnectionEstablished(e)
    \/ \E b \in BOOLEAN, u \in RpcUrls, c \in Chains : WcRequest(b, u, c)
    \/ \E ps \in JsonParams, m \in Methods : ParseParams(ps, m)
    \/ \E w \in WalletDatas : TryIntoWallet(w)

FnSpec == Init /\ [][FnNext]_vars

TypeOK ==
    /\ wallet \in {"None", "Injected", "WalletConnect"}
    /\ Len(chan) <= Capacity
    /\ waitq # <<>> => Len(chan) = Capacity
    /\ listeners \in 0..MaxListeners
    /\ pc \in {"idle", "ci_accounts", "ci_chain", "blocked", "next_wait"}

\* ======================================================================
\*                               C L A I M S
\* ======================================================================

\* C1: connect(kind), for either kind, called while the backend is not None
\* returns AlreadyConnected and changes nothing: backend, snapshot, listeners,
\* channel, waiting senders, storage and relay client are as before.
C1_AlreadyConnectedChangesNothing ==
    [][(op' = "connect" /\ wallet # "None")
         => /\ result' = "AlreadyConnected"
            /\ UNCHANGED <<wallet, accounts, chain_id, listeners, chan, waitq,
                           storage, wc_chain, wc_accts, pc>>]_vars

C1_Witness ==
    /\ op = "connect" /\ arg = "Injected" /\ result = "AlreadyConnected"
    /\ wallet = "WalletConnect" /\ chan # <<>>

\* C2 (as claimed): when the handshake of connect(kind) fails, connect
\* returns the adapter's error and the backend is None after the call.
C2_FailedHandshakeLeavesNone ==
    (/\ op \in {"connect", "accountsResp", "chainResp"}
     /\ result \in {"Eip1193Error", "WalletConnectClientError"})
       => wallet = "None"

C4_ConnectEventsExact ==
    (op = "chainResp" /\ origin = "connect" /\ result = "Ok")
       => SubSeq(chan, mark + 1, Len(chan))
            = <<Connected, ChainIdChanged(chain_id), AccountsChanged(accounts)>>

C6_DisconnectNoneIsNoOp ==
    (op = "disconnect" /\ arg = "None" /\ result = "Ok") => sent = <<>>

\* C6 (amended): disconnect() with the backend already None leaves the
\* backend, the snapshot, the listeners and the storage unchanged but still
\* pushes one Disconnected event, so a second call pushes a second one.
C6_DisconnectNonePushes ==
    [][(op' = "disconnect" /\ wallet = "None" /\ result' = "Ok")
         => /\ UNCHANGED <<wallet, accounts, chain_id, listeners, storage>>
            /\ chan' = Append(chan, Disconnected)]_vars

C6_Witness ==
    /\ op = "disconnect" /\ arg = "None" /\ result = "Ok"
    /\ wallet = "None" /\ nCalls >= 2
    /\ Len(chan) >= 2
    /\ chan[Len(chan)] = Disconnected /\ chan[Len(chan) - 1] = Disconnected

\* C7: a host accountsChanged notification with an empty list makes every
\* listener push AccountsChanged(Some([])) and then Disconnected, in this
\* order and as two events, also when notifications fire back to back and
\* when the channel fills up in between: what the notification's step
\* pushes alternates the two events, a listener's task still waiting to
\* send holds either both events in this order or only the Disconnected,
\* and a waiting task that gets a slot sends its AccountsChanged first and
\* waits again with the Disconnected.
C7_EmptyAccountsThenDisconnected ==
    [][LET n0 == <<"accountsChanged", Some(<<>>)>>
           ac0 == <<"AccountsChanged", Some(<<>>)>>
           dis == <<"Disconnected", <<>>>>
       IN /\ (op' = "notify" /\ note' = Some(n0)) =>
                /\ \A i \in 1..Len(sent') :
                      sent'[i] = IF i % 2 = 1 THEN ac0 ELSE dis
                /\ waitq' = <<>> => Len(sent') = 2 * listeners'
          /\ \A i \in 1..Len(waitq') :
                waitq'[i].src = n0 => waitq'[i].evs \in {<<ac0, dis>>, <<dis>>}
          /\ (op' = "next" /\ arg' = "recv" /\ waitq # <<>>
                 /\ waitq[1].src = n0) =>
               IF waitq[1].evs = <<ac0, dis>>
               THEN /\ chan' = Append(Tail(chan), ac0)
                    /\ waitq' = Append(Tail(waitq),
                                       [src |-> n0, evs |-> <<dis>>])
               ELSE /\ chan' = Append(Tail(chan), dis)
                    /\ waitq' = Tail(waitq)]_vars

\* two empty-list notifications back to back, two listeners each: the
\* second one's first task got its AccountsChanged in and waits with the
\* Disconnected
C7_Witness ==
    /\ op = "notify"
    /\ note = Some(<<"accountsChanged", Some(<<>>)>>)
    /\ nNotifs = 2
    /\ listeners = 2
    /\ sent = <<AccountsChanged(Some(<<>>))>>
    /\ Len(waitq) = 2
    /\ waitq[1].evs = <<Disconnected>>

\* C8 (as claimed): a host notification is translated into exactly one
\* event: AccountsChanged(Some(list)) for accountsChanged with a non-empty
\* list, one ChainIdChanged for chainChanged, one Disconnected for
\* disconnect, and nothing else such as Connected.
C8_OneEventPerNotification ==
    (/\ op = "notify"
     /\ listeners = 1
     /\ waitq = <<>>
     /\ note # Some(<<"accountsChanged", None>>)
     /\ note # Some(<<"accountsChanged", Some(<<>>)>>))
    => /\ Len(sent) = 1
       /\ sent[1][1] = CASE arg = "accountsChanged" -> "AccountsChanged"
                         [] arg = "chainChanged" -> "ChainIdChanged"
                         [] OTHER -> "Disconnected"

\* C8 (amended): every listener registered for a host notification pushes
\* for it: one ChainIdChanged for chainChanged, one Disconnected for
\* disconnect, and for accountsChanged with a non-empty list two events,
\* AccountsChanged(Some(list)) and then Connected.
C8_PerListenerTranslation ==
    (/\ op = "notify"
     /\ waitq = <<>>
     /\ note # Some(<<"accountsChanged", None>>)
     /\ note # Some(<<"accountsChanged", Some(<<>>)>>))
    => LET kind == note[1][1]
           payload == note[1][2]
           one == CASE kind = "disconnect" -> << <<"Disconnected", <<>>>> >>
                    [] kind = "chainChanged" ->
                         << <<"ChainIdChanged",
                              IF payload = <<>> THEN <<>>
                              ELSE <<payload[1][2]>> >> >>
                    [] kind = "accountsChanged" ->
                         << <<"AccountsChanged", payload>>,
                            <<"Connected", <<>>>> >>
       IN sent = [i \in 1..(listeners * Len(one)) |->
                     one[((i - 1) % Len(one)) + 1]]

C8_Witness ==
    /\ op = "notify"
    /\ note = Some(<<"accountsChanged", Some(<<"a1">>)>>)
    /\ listeners = 1
    /\ waitq = <<>>
    /\ sent = <<AccountsChanged(Some(<<"a1">>)), Connected>>

\* C9: after every next() that returns Ok(Some(e)) the record under the
\* storage key is present exactly when e is Connected, Broken,
\* ChainIdChanged(Some) or AccountsChanged(Some), and absent when e is
\* ConnectionWaiting, Disconnected, ChainIdChanged(None) or
\* AccountsChanged(None).
C9_PersistedIffEstablished ==
    (op = "next" /\ result = "Some" /\ event # None) =>
        LET e == event[1] IN
        /\ e[1] \in {"Connected", "Broken"} => storage # None
        /\ (e[1] \in {"ChainIdChanged", "AccountsChanged"} /\ e[2] # None)
              => storage # None
        /\ e[1] \in {"ConnectionWaiting", "Disconnected"} => storage = None
        /\ (e[1] \in {"ChainIdChanged", "AccountsChanged"} /\ e[2] = None)
              => storage = None

\* a record written for an earlier event is deleted when Disconnected is
\* drained
C9_Witness ==
    /\ op = "next"
    /\ result = "Some"
    /\ event = Some(Disconnected)
    /\ storage = None
    /\ nCalls >= 2

\* C10: after next() has drained an event for which
\* is_connection_established() is true, the persisted record is present and
\* its chain_id is the manager's snapshot chain_id, on either backend.
C10_PersistedChainIsSnapshot ==
    (op = "next" /\ result = "Some" /\ event # None
        /\ is_connection_established(event[1]))
    => /\ storage # None
       /\ storage[1].chain_id = chain_id

\* C11: switch_network(c) fails with Unavailable and leaves the snapshot
\* (accounts, chain_id), the backend, the relay client's active chain and
\* the event channel unchanged whenever the backend is Injected or None, or
\* it is WalletConnect and chain c has no granted accounts (None or an
\* empty list).
C11_SwitchUnavailableChangesNothing ==
    [][\A c \in Chains :
         (/\ op' = "switch_network"
          /\ arg' = ToString(c)
          /\ \/ wallet \in {"Injected", "None"}
             \/ wc_accts[c] = <<>>
             \/ wc_accts[c] = << <<>> >>)
         => /\ result' = "Unavailable"
            /\ UNCHANGED <<wallet, accounts, chain_id, wc_chain, wc_accts,
                           chan, waitq, pc>>]_vars

\* a WalletConnect session whose grant for the asked chain is the empty list
C11_Witness ==
    /\ op = "switch_network"
    /\ result = "Unavailable"
    /\ wallet = "WalletConnect"
    /\ arg = "2"
    /\ wc_accts[2] = Some(<<>>)
    /\ wc_accts[wc_chain] # None

\* C12: switch_network(c) on a WalletConnect backend with a non-empty
\* granted account list for c sets the snapshot's chain_id and accounts and
\* the relay client's active chain to c and its accounts, pushes
\* ChainIdChanged(Some(c)) and then AccountsChanged(Some(accounts)), nothing
\* else, and returns Ok (with no room left in the channel it stays in the
\* send instead).
C12_SwitchSucceeds ==
    [][\A c \in Chains :
         (/\ op' = "switch_network"
          /\ arg' = ToString(c)
          /\ wallet = "WalletConnect"
          /\ wc_accts[c] \notin {<<>>, << <<>> >>})
         => /\ wallet' = "WalletConnect"
            /\ chain_id' = <<c>>
            /\ accounts' = wc_accts[c]
            /\ wc_chain' = c
            /\ wc_accts' = wc_accts
            /\ \/ /\ result' = "Ok"
                  /\ chan' = chan \o << <<"ChainIdChanged", <<c>> >>,
                                        <<"AccountsChanged", wc_accts[c]>> >>
               \/ /\ result' = "Pending"
                  /\ Len(chan') = Capacity]_vars

C12_Witness ==
    /\ op = "switch_network"
    /\ arg = "2"
    /\ result = "Ok"
    /\ chain_id = Some(2)
    /\ wc_chain = 2
    /\ accounts = Some(<<"a2">>)
    /\ sent = <<ChainIdChanged(Some(2)), AccountsChanged(Some(<<"a2">>))>>

\* C13: a connect over WalletConnect that succeeds (through connect or
\* through restore) has set the backend to WalletConnect and pushed exactly
\* ConnectionWaiting(uri) when the pairing uri is not empty, or exactly
\* Connected, ChainIdChanged(Some(id)), AccountsChanged(Some(accounts)) in
\* this order when the session was resumed from restored state.
C13_SessionEventsAsClaimed ==
    (/\ op \in {"connect", "restore"}
     /\ note # None
     /\ result \in {"Ok", "true"})
    => /\ wallet = "WalletConnect"
       /\ IF note[1][2] # None
          THEN sent = << <<"ConnectionWaiting", note[1][2]>> >>
          ELSE /\ Len(sent) = 3
               /\ sent[1] = <<"Connected", <<>>>>
               /\ sent[2][1] = "ChainIdChanged" /\ sent[2][2] # <<>>
               /\ sent[3][1] = "AccountsChanged" /\ sent[3][2] # <<>>

\* C14: when restore() reads a record with WalletConnect state and the
\* relay client resumes the session (initiate_session answers the empty
\* url), the backend ends as WalletConnect and that restore emits no
\* ConnectionWaiting: what it pushes starts with Connected.
C14_ResumedSkipsPairing ==
    (op = "restore" /\ note = <<<<"url", <<>>>>>>)
    => /\ wallet = "WalletConnect"
       /\ storage # <<>> /\ storage[1].wc_state # <<>>
       /\ \A i \in 1..Len(sent) : sent[i][1] # "ConnectionWaiting"
       /\ \A i \in 1..Len(pending) : pending[i][1] # "ConnectionWaiting"
       /\ sent # <<>> => sent[1] = <<"Connected", <<>>>>

\* the round trip within one page: connect, the relay reports the session
\* settled and next() persists it, restore() resumes from that record
C14_Witness ==
    /\ op = "restore"
    /\ note = Some(<<"url", None>>)
    /\ nRelay = 1
    /\ result = "true"
    /\ wallet = "WalletConnect"
    /\ Len(sent) = 3
    /\ sent[1] = Connected

\* C15: a disconnect() on a handle sharing the channel, run while next() is
\* suspended on the empty channel, makes that call resolve instead of
\* hanging: woken through the channel it returns Disconnected; when the
\* relay poll of the race on a WalletConnect backend answers first, the call
\* returns with the relay's answer and Disconnected is the event the channel
\* yields next.
C15_DisconnectWakesNext ==
    (/\ pc = "next_wait"
     /\ op = "disconnect_clone"
     /\ chan = sent)
    ~> (/\ pc # "next_wait"
        /\ op = "next"
        /\ \/ arg = "recv" /\ result = "Some" /\ event = <<<<"Disconnected", <<>>>>>>
           \/ /\ arg = "relay"
              /\ wallet = "WalletConnect"
              /\ chan # <<>>
              /\ chan[1] = <<"Disconnected", <<>>>>)

\* the suspended call has returned the Disconnected the clone pushed
C15_Witness ==
    /\ op = "next"
    /\ arg = "recv"
    /\ pc = "idle"
    /\ result = "Some"
    /\ event = Some(Disconnected)
    /\ wallet = "Injected"
    /\ nCalls = 2
    /\ nNotifs = 0
    /\ listeners = 1
    /\ chan = <<>>

\* C16: once disconnect() of an Injected backend has returned, a host
\* accountsChanged, chainChanged or disconnect notification pushes no event
\* onto the channel (and leaves no task waiting to push one).
C16_NoEventsAfterDisconnect ==
    (op = "notify" /\ wallet = "None") => (sent = <<>> /\ waitq = <<>>)

\* C17: listener registration is idempotent: whatever connect, failed
\* connect, disconnect and restore calls were made, at most one set of host
\* listeners feeds the channel, so one host disconnect or chainChanged
\* notification yields at most one event.
C17_OneListenerSet ==
    /\ listeners <= 1
    /\ (op = "notify" /\ arg \in {"disconnect", "chainChanged"})
          => Len(sent) + Len(waitq) <= 1

\* C18: connect(Injected) on a manager without a backend, when the host
\* probe fails, returns Unavailable at once: the backend stays None, no
\* listener is registered, nothing is pushed and the snapshot is unchanged.
C18_InjectedUnavailable ==
    [][(op' = "connect" /\ arg' = "Injected" /\ wallet = "None" /\ ~host)
       => /\ result' = "Unavailable"
          /\ wallet' = "None"
          /\ pc' = "idle"
          /\ listeners' = 0
          /\ sent' = <<>>
          /\ UNCHANGED <<accounts, chain_id, chan, waitq, storage>>]_vars

C18_Witness ==
    /\ op = "connect"
    /\ arg = "Injected"
    /\ ~host
    /\ result = "Unavailable"
    /\ wallet = "None"
    /\ listeners = 0
    /\ nCalls >= 2

\* C19: on a manager built without a relay project id, connect(WalletConnect)
\* called without a backend fails with Unavailable, the backend stays None
\* and nothing is pushed; the backend never becomes WalletConnect, by
\* connect or by restore.
C19_RelayUnavailable ==
    [][~wc_project_id =>
          /\ wallet' # "WalletConnect"
          /\ (op' = "connect" /\ arg' = "WalletConnect" /\ wallet = "None")
                => /\ result' = "Unavailable"
                   /\ wallet' = "None"
                   /\ pc' = "idle"
                   /\ sent' = <<>>
                   /\ UNCHANGED <<accounts, chain_id, chan, waitq,
                                  listeners, storage>>]_vars

C19_Witness ==
    /\ op = "connect"
    /\ arg = "WalletConnect"
    /\ ~wc_project_id
    /\ result = "Unavailable"
    /\ wallet = "None"
    /\ chan # <<>>

\* C20: available_wallets() lists Injected exactly when the host probe
\* succeeds and WalletConnect exactly when a relay project id was
\* configured, Injected before WalletConnect, whatever the backend is and
\* whatever was called before.
C20_AvailableWallets ==
    op = "available_wallets" =>
        note = << <<"wallets",
                    CASE host /\ wc_project_id -> <<"Injected", "WalletConnect">>
                      [] host /\ ~wc_project_id -> <<"Injected">>
                      [] ~host /\ wc_project_id -> <<"WalletConnect">>
                      [] OTHER -> <<>> >> >>

\* asked while a relay session is the backend
C20_Witness ==
    /\ op = "available_wallets"
    /\ wallet = "WalletConnect"
    /\ nCalls >= 2
    /\ note = Some(<<"wallets", <<"Injected", "WalletConnect">>>>)

\* C21: request() and sign_typed_data() fail with NotConnected exactly
\* when the backend is None, in particular after disconnect(); with a
\* backend they run on that backend, Injected on the host bridge and
\* WalletConnect on the relay adapter, and return its result or its error.
C21_RequestRouting ==
    op \in {"request", "sign_typed_data"} =>
        /\ wallet = "None" => (result = "NotConnected" /\ arg = "-")
        /\ wallet = "Injected" =>
              (arg = "Injected" /\ result \in {"Ok", "Eip1193Error"})
        /\ wallet = "WalletConnect" =>
              (arg = "WalletConnect" /\ result \in {"Ok", "WalletConnectError"})

\* a request made after connect(Injected) and disconnect()
C21_Witness ==
    /\ op = "request"
    /\ result = "NotConnected"
    /\ wallet = "None"
    /\ listeners = 1
    /\ nCalls = 2
    /\ chan # <<>>
    /\ chan[Len(chan)] = Disconnected

\* C22: a Broken event does not tear the backend down: the next() that
\* returns Broken leaves the backend, the snapshot, the relay session and
\* the listeners as they were, request() goes on to the same backend, and
\* the manager pushes no event (no Disconnected) because of it.
C22_BrokenKeepsBackend ==
    [][(op' = "next" /\ event' = << <<"Broken", <<>>>> >>)
       => /\ UNCHANGED <<wallet, accounts, chain_id, wc_chain, wc_accts,
                         listeners, waitq>>
          /\ chan' = IF arg' = "recv" THEN Tail(chan) ELSE chan
          /\ sent' = <<>>
          /\ pc' = "idle"
          /\ RequestOutcomes(wallet') = RequestOutcomes(wallet)]_vars

C22_Witness ==
    /\ op = "next"
    /\ arg = "relay"
    /\ event = Some(Broken)
    /\ wallet = "WalletConnect"
    /\ storage # None
    /\ chan # <<>>

\* C23: restore() returns false exactly when the read of the persisted
\* state failed, and then leaves the backend, the snapshot, the listeners
\* and the channel unchanged; whenever the read succeeds it returns true,
\* also when the connect it attempts fails (at once or in its handshake).
C23_RestoreResult ==
    [][/\ op' = "restore" =>
             /\ result' = "false" <=> storage = <<>>
             /\ storage = <<>> =>
                   UNCHANGED <<wallet, accounts, chain_id, chan, waitq,
                               listeners, pc, storage>>
             /\ storage # <<>> => result' \in {"true", "Pending"}
       /\ (op' \in {"accountsResp", "chainResp"} /\ origin = "restore"
              /\ pc' = "idle")
             => result' = "true"]_vars

\* a record of an injected session read where the host has no wallet: the
\* connect fails with Unavailable and restore() returns true
C23_Witness ==
    /\ op = "restore"
    /\ result = "true"
    /\ storage # None
    /\ storage[1].wc_state = None
    /\ ~host
    /\ wallet = "None"

\* C24: restore() picks the backend from the record alone: with
\* WalletConnect state in it the WalletConnect connect seeded with that
\* state is attempted and no injected connect (no listener is registered,
\* no handshake started); without it the injected connect is attempted and
\* no WalletConnect connect (no session url is asked for).
C24_RestoreTarget ==
    [][(op' = "restore" /\ storage # <<>>) =>
          IF storage[1].wc_state # <<>>
          THEN /\ listeners' = listeners
               /\ pc' \notin {"ci_accounts", "ci_chain"}
               /\ wallet' \in {wallet, "WalletConnect"}
               /\ wc_project_id => (note' # <<>> \/ result' = "true")
               /\ note' # <<>> => wallet' = "WalletConnect"
          ELSE /\ note' = <<>>
               /\ wallet' \in {wallet, "Injected"}
               /\ UNCHANGED <<wc_chain, wc_accts>>
               /\ host => /\ listeners' = listeners + 1
                          /\ wallet' = "Injected"
                          /\ pc' = "ci_accounts"]_vars

\* a WalletConnect record restored over an active injected backend
C24_Witness ==
    /\ op = "restore"
    /\ storage # None
    /\ storage[1].wc_state # None
    /\ host
    /\ listeners = 1
    /\ wallet = "WalletConnect"
    /\ note # None

\* C25: no producer stays in a push on a full channel: every send of
\* connect (also through restore), disconnect and switch_network has
\* completed when the call is over, and every listener task has sent its
\* events, also when the channel already held its capacity of events.
C25_PushesComplete ==
    /\ op \in {"connect", "restore", "chainResp", "disconnect", "switch_network"}
          => (pc # "blocked" /\ pending = <<>>)
    /\ op = "notify" => waitq = <<>>

\* C26: events are never reordered: next() yields the events of an earlier
\* host notification before those of a later one, also with a full
\* channel. On a session with one listener set and no connect event
\* undrained this makes the AccountsChanged of an accountsChanged
\* notification directly followed by the Connected or Disconnected of the
\* same notification.
C26_NotificationsInOrder ==
    \A i \in 1..(Len(chan) - 1) :
        chan[i][1] = "AccountsChanged" =>
            chan[i + 1] \in {<<"Connected", <<>>>>, <<"Disconnected", <<>>>>}

\* C27: a chain id from the injected provider that does not fit in 64 bits
\* is reported as a ConversionError and never truncated to its low 64 bits:
\* the connect whose eth_chainId answer is too wide fails with
\* ConversionError, and a chainChanged notification with such a payload
\* pushes no ChainIdChanged(Some(_)).
C27_WideChainIdRejected ==
    /\ (/\ op = "chainResp"
        /\ note # <<>>
        /\ note[1][2] # <<>>
        /\ note[1][2][1][1] # 0)
          => result = "ConversionError"
    /\ (/\ op = "notify"
        /\ arg = "chainChanged"
        /\ note[1][2] # <<>>
        /\ note[1][2][1][1] # 0)
          => \A i \in 1..Len(sent) :
                sent[i][1] = "ChainIdChanged" => sent[i][2] = <<>>

\* C28: is_connection_established() is true for exactly Connected, Broken,
\* ChainIdChanged(Some(_)) and AccountsChanged(Some(_)), the empty account
\* list included, and false for exactly ConnectionWaiting(_), Disconnected,
\* ChainIdChanged(None) and AccountsChanged(None).
C28_EstablishedTable ==
    op = "is_connection_established" =>
        LET e == event[1] IN
        /\ result \in {"true", "false"}
        /\ result = "true" <=>
              \/ e = <<"Connected", <<>>>>
              \/ e = <<"Broken", <<>>>>
              \/ e[1] = "ChainIdChanged" /\ e[2] # <<>>
              \/ e[1] = "AccountsChanged" /\ e[2] # <<>>
        /\ result = "false" <=>
              \/ e[1] = "ConnectionWaiting"
              \/ e = <<"Disconnected", <<>>>>
              \/ e = <<"ChainIdChanged", <<>>>>
              \/ e = <<"AccountsChanged", <<>>>>

C28_Witness ==
    /\ op = "is_connection_established"
    /\ event = Some(AccountsChanged(Some(<<>>)))
    /\ result = "true"

C30_TypeRewritten ==
    (/\ op = "parse_params"
     /\ arg # "wallet_watchAsset"
     /\ note[1][2][1] = "array")
    => LET in == note[1][2][2]
           out == note[1][3]
       IN /\ out[1] = "array"
          /\ Len(out[2]) = Len(in)
          /\ \A i \in 1..Len(in) :
                IF in[i][1] = "obj" /\ in[i][2] = "0x01"
                THEN out[2][i] = <<"obj", "0x1", in[i][3]>>
                ELSE IF in[i][1] = "obj" /\ in[i][2] = "0x02"
                THEN out[2][i] = <<"obj", "0x2", in[i][3]>>
                ELSE IF in[i][1] = "obj" /\ in[i][2] = "0x03"
                THEN out[2][i] = <<"obj", "0x3", in[i][3]>>
                ELSE out[2][i] = in[i]

C30_Witness ==
    /\ op = "parse_params"
    /\ arg = "eth_sendTransaction"
    /\ note[1][2] = <<"array", << <<"obj", "0x03", "a">>, <<"str", "0x01", "-">> >> >>
    /\ note[1][3] = <<"array", << <<"obj", "0x3", "a">>, <<"str", "0x01", "-">> >> >>

\* C31 (as claimed): parse_params always succeeds; for a method other than
\* wallet_watchAsset the result is an array that keeps the length and the
\* element order of array params and is empty for struct or null params;
\* for wallet_watchAsset the params object is passed through unchanged.
C31_AlwaysShaped ==
    op = "parse_params" =>
        LET in == note[1][2]
            out == note[1][3]
        IN /\ result = "Ok"
           /\ arg # "wallet_watchAsset" =>
                 /\ out[1] = "array"
                 /\ in[1] = "array" =>
                       /\ Len(out[2]) = Len(in[2])
                       /\ \A i \in 1..Len(in[2]) :
                             /\ out[2][i][1] = in[2][i][1]
                             /\ out[2][i][3] = in[2][i][3]
                 /\ in[1] # "array" => out[2] = <<>>
           /\ (arg = "wallet_watchAsset" /\ in[1] \in {"object", "array"})
                 => out = in

\* C31 (amended): parse_params fails only when the params do not serialize.
\* Otherwise, for a method other than wallet_watchAsset the result is an
\* array that keeps the length and the element order of array params, is
\* empty for null params and for struct params without a positive numeric
\* 'length' field, and holds 'length' undefined elements for a struct that
\* has one; for wallet_watchAsset non-null params are passed through
\* unchanged and null params give the empty array.
C31_ShapedWhenSerializable ==
    op = "parse_params" =>
        LET in == note[1][2]
            out == note[1][3]
        IN /\ result = "Err" <=> in[1] = "unserializable"
           /\ in[1] = "unserializable" => out = <<"Err", <<>>>>
           /\ in[1] = "null" => out = <<"array", <<>>>>
           /\ (arg # "wallet_watchAsset" /\ in[1] = "array") =>
                 /\ out[1] = "array"
                 /\ Len(out[2]) = Len(in[2])
                 /\ \A i \in 1..Len(in[2]) :
                       /\ out[2][i][1] = in[2][i][1]
                       /\ out[2][i][3] = in[2][i][3]
           /\ (arg # "wallet_watchAsset" /\ in[1] = "object") =>
                 /\ out[1] = "array"
                 /\ Len(out[2]) = in[2][2]
                 /\ \A i \in 1..Len(out[2]) : out[2][i] = <<"undef", "-", "-">>
           /\ (arg = "wallet_watchAsset" /\ in[1] \in {"object", "array"})
                 => out = in

\* a struct with a 'length' field of 1, for a method that takes an array
C31_Witness ==
    /\ op = "parse_params"
    /\ arg = "eth_sendTransaction"
    /\ note[1][2] = <<"object", <<"0x01", 1>>>>
    /\ note[1][3] = <<"array", << <<"undef", "-", "-">> >> >>

\* C32: after next() has returned ChainIdChanged(c) the manager's chain_id
\* equals c, and after it has returned AccountsChanged(a) the manager's
\* accounts equal a.
C32_SnapshotFollowsEvents ==
    (op = "next" /\ result = "Some") =>
        /\ event[1][1] = "ChainIdChanged" => chain_id = event[1][2]
        /\ event[1][1] = "AccountsChanged" => accounts = event[1][2]

\* C33: after next() has returned a Disconnected event that the wallet
\* originated, here the relay's, Backend is None, has_provider() is false
\* and a following connect() is not refused with AlreadyConnected.
C33_WalletDisconnectClearsBackend ==
    (op = "next" /\ arg = "relay" /\ result = "Some" /\ event = Some(Disconnected))
        => /\ wallet = "None"
           /\ ~AlreadyConnected(wallet)

\* C34: a next() whose relay poll fails returns the error, and that call
\* neither writes nor deletes the persisted record and pushes no event.
C34_FailedPollLeavesState ==
    [][(op' = "next" /\ arg' = "relay" /\ result' \notin {"Some", "None", "Pending"})
        => /\ result' = "WalletConnectError"
           /\ event' = None
           /\ storage' = storage
           /\ chan' = chan
           /\ waitq' = waitq
           /\ sent' = <<>>]_vars

C34_Witness ==
    /\ op = "next"
    /\ arg = "relay"
    /\ result = "WalletConnectError"
    /\ storage # None
    /\ chan # <<>>

\* C36: restore() called while the backend is not None leaves the backend,
\* the snapshot and the registered listeners as they are and pushes no
\* event.
C36_RestoreKeepsActiveBackend ==
    [][(op' = "restore" /\ wallet # "None")
         => /\ UNCHANGED <<wallet, accounts, chain_id, listeners, chan, waitq>>
            /\ sent' = <<>>]_vars

\* C37: a next() that drains Connected on a WalletConnect backend returns
\* Connected, also when the channel held its capacity of events before the
\* drain.
C37_NextReturnsConnected ==
    [][(/\ wallet = "WalletConnect"
        /\ Len(chan) = Capacity
        /\ Head(chan) = Connected
        /\ op' = "next" /\ arg' = "recv")
         => (result' = "Some" /\ event' = Some(Connected) /\ pc' = "idle")]_vars

\* C38: when next() returns Connected on a WalletConnect backend it has
\* appended to the stream ChainIdChanged(Some(c)) and then
\* AccountsChanged(a), c the relay adapter's chain id and a its accounts
\* for c at that time; on an Injected or None backend it has pushed nothing.
C38_ConnectedFollowUps ==
    [][(op' = "next" /\ result' = "Some" /\ event' = Some(Connected))
         => IF wallet = "WalletConnect"
            THEN /\ sent' = <<ChainIdChanged(Some(wc_chain')),
                              AccountsChanged(wc_accts'[wc_chain'])>>
                 /\ Len(chan') >= 2
                 /\ SubSeq(chan', Len(chan') - 1, Len(chan')) = sent'
            ELSE /\ sent' = <<>>
                 /\ chan' = Tail(chan)]_vars

C38_Witness ==
    /\ op = "next"
    /\ event = Some(Connected)
    /\ wallet = "WalletConnect"
    /\ sent = <<ChainIdChanged(Some(1)), AccountsChanged(Some(<<"a1">>))>>
    /\ Len(chan) > 2

\* C40: the chains of the WalletDescription made from a wallet listing are
\* the numbers n of its chain strings of the form 'eip155:<n>', n decimal,
\* in the order of the input; chain strings of any other form are dropped.
C40_Eip155ChainsKept ==
    (op = "try_into" /\ result = "Ok") =>
        LET in == note[1][2]
            out == note[1][3]
            digits(c) == SubSeq(c, 8, Len(c))
            wellFormed(c) ==
                /\ Len(c) > 7
                /\ SubSeq(c, 1, 7) = <<"e", "i", "p", "1", "5", "5", ":">>
                /\ \A i \in 1..Len(digits(c)) : digits(c)[i] \in DigitChars
            kept == SelectSeq(in, wellFormed)
        IN /\ Len(out) = Len(kept)
           /\ \A i \in 1..Len(kept) : out[i] = DecimalValue(digits(kept[i]))

\* C35: at most one listener loop of a binding consumes the event channel
\* through next(): the loop of an earlier connection has ended before a
\* later connect or restore starts a new one.
C35_SingleConsumer == Len(loops) <= 1

\* C39: in the Yew binding the accounts state is Some whenever the connected
\* flag is true, at every point between two handled events.
C39_ConnectedHasAccounts ==
    (ui.kit = "yew" /\ ui.connected) => ui.accounts # None

====
